---- MODULE Spec2Model ----
(***************************************************************************)
(* Model of streamlit_app.py: the NOAA OISST viewer.  One script run is    *)
(* load_and_slice_data (memoized by st.cache_data) followed by the main    *)
(* logic that renders and displays the map.  The remote service and the    *)
(* plotting libraries are the environment: every open, selection and       *)
(* render may succeed or raise.                                            *)
(***************************************************************************)
EXTENDS Integers, Sequences, FiniteSets, TLC

VARIABLES selected_date, pc, cache, sst_data, da, fig, trace,
          opens, firstResult, figures

vars == <<selected_date, pc, cache, sst_data, da, fig, trace,
          opens, firstResult, figures>>

(* ---------------- bounds ---------------- *)
NumDates == 2
MaxCells == 3
MaxCount == 2

(* ---------------- values ---------------- *)
\* dates min_value..max_value of the date_input, numbered 1..NumDates
Dates == 1..NumDates

\* default_date is also max_value
default_date == NumDates

NaN == "NaN"

CellValues == {NaN, "sst"}

\* flattened values of a materialized DataArray, possibly of size 0
Slices == UNION {[1..n -> CellValues] : n \in 0..MaxCells}

None == [absent |-> TRUE, cells |-> <<>>]

DataArray(cells) == [absent |-> FALSE, cells |-> cells]

Results == {None} \cup {DataArray(c) : c \in Slices}

NoFigure == [exists |-> FALSE, title |-> 0]

Figure(d) == [exists |-> TRUE, title |-> d]

\* getattr(data_array, "size", 0)
Size(r) == Len(r.cells)

Bump(n) == IF n < MaxCount THEN n + 1 ELSE n

Has(e) == \E i \in DOMAIN trace : trace[i] = e

Count(e) == Cardinality({i \in DOMAIN trace : trace[i] = e})

(* ---------------- load_and_slice_data ---------------- *)
AllNaNNonEmpty(cells) == Len(cells) > 0 /\ \A i \in DOMAIN cells : cells[i] = NaN

AnyNaN(cells) == \E i \in DOMAIN cells : cells[i] = NaN

\* np.all(np.isnan(da.values)): vacuously true of an empty array
AllNaN(cells) == \A i \in DOMAIN cells : cells[i] = NaN

CacheStoreDropped(c, d, entry) == c

CacheStoreSkipAbsent(c, d, entry) ==
    IF entry.value.absent THEN c
    ELSE IF d \in DOMAIN c THEN c ELSE c @@ (d :> entry)

\* st.cache_data: the result and the elements shown during the call are
\* stored under the argument; there is no expiry
CacheStore(c, d, entry) == IF d \in DOMAIN c THEN c ELSE c @@ (d :> entry)

ExceptionElementsTwice == <<"error", "error", "info">>

\* st.error then st.info of the outer except
ExceptionElements == <<"error", "info">>

AfterPrimaryAlwaysFallback(ok) == "open2"

\* inner try/except: the pydap open runs only when the first open raised
AfterPrimary(ok) == IF ok THEN "select" ELSE "open2"

\* the cached function returns: the wrapper stores the value and hands it
\* to the main logic
Return(value, elements) ==
    /\ cache' = CacheStore(cache, selected_date,
                           [value |-> value, elements |-> elements])
    /\ firstResult' = IF selected_date \in DOMAIN firstResult
                         THEN firstResult
                         ELSE firstResult @@ (selected_date :> value)
    /\ sst_data' = value
    /\ pc' = "main"

\* a cache hit: no body execution, recorded elements are replayed
CacheHit ==
    /\ pc = "load"
    /\ selected_date \in DOMAIN cache
    /\ sst_data' = cache[selected_date].value
    /\ trace' = trace \o <<"load", "cache_hit">> \o cache[selected_date].elements
    /\ pc' = "main"
    /\ UNCHANGED <<selected_date, cache, da, fig, opens, firstResult, figures>>

\* a cache miss: the body runs, first open with the default engine
OpenPrimary ==
    /\ pc = "load"
    /\ selected_date \notin DOMAIN cache
    /\ \E ok \in BOOLEAN :
          /\ trace' = trace \o <<"load", IF ok THEN "primary_ok" ELSE "primary_fail">>
          /\ pc' = AfterPrimary(ok)
    /\ opens' = [opens EXCEPT ![selected_date] = Bump(@)]
    /\ UNCHANGED <<selected_date, cache, sst_data, da, fig, firstResult, figures>>

\* second open with engine="pydap"; its failure reaches the outer except
OpenSecondary ==
    /\ pc = "open2"
    /\ \E ok \in BOOLEAN :
          IF ok
          THEN /\ trace' = Append(trace, "secondary_ok")
               /\ pc' = "select"
               /\ UNCHANGED <<cache, sst_data, firstResult>>
          ELSE /\ trace' = trace \o <<"secondary_fail", "raise">> \o ExceptionElements
               /\ Return(None, ExceptionElements)
    /\ UNCHANGED <<selected_date, da, fig, opens, figures>>

\* ds["sst"].sel(...).squeeze(), da.load(), the all-NaN defence, return
SelectAndLoad ==
    /\ pc = "select"
    /\ \/ /\ trace' = trace \o <<"raise">> \o ExceptionElements
          /\ Return(None, ExceptionElements)
          /\ UNCHANGED da
       \/ \E cells \in Slices :
             /\ da' = DataArray(cells)
             /\ trace' = Append(trace, "materialized")
             /\ IF AllNaN(cells)
                THEN Return(None, <<>>)
                ELSE Return(DataArray(cells), <<>>)
    /\ UNCHANGED <<selected_date, fig, opens, figures>>

(* ---------------- create_map_figure ---------------- *)
create_map_figure_NoneOnly(data_array, d, raises) ==
    IF data_array.absent
    THEN [ret |-> NoFigure, created |-> FALSE, raised |-> FALSE]
    ELSE IF raises
         THEN [ret |-> NoFigure, created |-> TRUE, raised |-> TRUE]
         ELSE [ret |-> Figure(d), created |-> TRUE, raised |-> FALSE]

\* raises: whether the plotting calls after plt.subplots raise (not caught)
create_map_figure(data_array, d, raises) ==
    IF data_array.absent \/ Size(data_array) = 0
    THEN [ret |-> NoFigure, created |-> FALSE, raised |-> FALSE]
    ELSE IF raises
         THEN [ret |-> NoFigure, created |-> TRUE, raised |-> TRUE]
         ELSE [ret |-> Figure(d), created |-> TRUE, raised |-> FALSE]

RenderEvents(r) ==
    <<"render">> \o (IF r.created THEN <<"subplots">> ELSE <<>>)
                 \o (IF r.raised THEN <<"render_raised">> ELSE <<>>)

(* ---------------- main logic ---------------- *)
MainBranchNoGuard(r) == "data"

\* if / elif / else of the main logic
MainBranch(r) ==
    IF ~r.absent /\ Size(r) > 0 THEN "data"
    ELSE IF ~r.absent THEN "empty"
    ELSE "absent"

\* the date_input delivers a date and the script runs from the top
PickDate ==
    /\ pc = "done"
    /\ \E d \in Dates : selected_date' = d
    /\ pc' = "load"
    /\ sst_data' = None
    /\ da' = None
    /\ fig' = NoFigure
    /\ trace' = <<>>
    /\ UNCHANGED <<cache, opens, firstResult, figures>>

Main ==
    /\ pc = "main"
    /\ LET b == MainBranch(sst_data) IN
         /\ trace' = Append(trace, CASE b = "data" -> "subheader"
                                     [] b = "empty" -> "warning"
                                     [] OTHER -> "stop")
         /\ pc' = IF b = "data" THEN "render" ELSE "done"
    /\ UNCHANGED <<selected_date, cache, sst_data, da, fig, opens, firstResult, figures>>

\* fig = create_map_figure(sst_data, selected_date)
Render ==
    /\ pc = "render"
    /\ \E raises \in BOOLEAN :
          LET r == create_map_figure(sst_data, selected_date, raises) IN
            /\ fig' = r.ret
            /\ figures' = IF r.created THEN Bump(figures) ELSE figures
            /\ trace' = trace \o RenderEvents(r)
            /\ pc' = IF r.raised THEN "done" ELSE "display"
    /\ UNCHANGED <<selected_date, cache, sst_data, da, opens, firstResult>>

\* if fig: st.pyplot(...); then the data preview expander
Display ==
    /\ pc = "display"
    /\ trace' = trace \o (IF fig.exists THEN <<"pyplot">> ELSE <<>>) \o <<"preview">>
    /\ pc' = "done"
    /\ UNCHANGED <<selected_date, cache, sst_data, da, fig, opens, firstResult, figures>>

Init ==
    /\ selected_date = default_date
    /\ pc = "load"
    /\ cache = <<>>
    /\ sst_data = None
    /\ da = None
    /\ fig = NoFigure
    /\ trace = <<>>
    /\ opens = [d \in Dates |-> 0]
    /\ firstResult = <<>>
    /\ figures = 0

Next ==
    \/ PickDate
    \/ CacheHit
    \/ OpenPrimary
    \/ OpenSecondary
    \/ SelectAndLoad
    \/ Main
    \/ Render
    \/ Display

Spec == Init /\ [][Next]_vars

(* ---------------- create_map_figure on arbitrary inputs ---------------- *)
InitRender ==
    /\ selected_date = default_date
    /\ pc = "done"
    /\ cache = <<>>
    /\ sst_data = None
    /\ da = None
    /\ fig = NoFigure
    /\ trace = <<>>
    /\ opens = [d \in Dates |-> 0]
    /\ firstResult = <<>>
    /\ figures = 0

RenderCall ==
    \E data \in Results, d \in Dates, raises \in BOOLEAN :
       LET r == create_map_figure(data, d, raises) IN
         /\ sst_data' = data
         /\ selected_date' = d
         /\ fig' = r.ret
         /\ figures' = IF r.created THEN Bump(figures) ELSE figures
         /\ trace' = RenderEvents(r)
         /\ pc' = IF r.raised THEN "done" ELSE "display"
         /\ UNCHANGED <<cache, da, opens, firstResult>>

NextRender == RenderCall

SpecRender == InitRender /\ [][NextRender]_vars

(* ---------------- properties ---------------- *)
\* states in which load_and_slice_data has returned in the current run
PostLoad == {"main", "render", "display", "done"}

IsOpenEvent(e) == e \in {"primary_ok", "primary_fail", "secondary_ok", "secondary_fail"}

OpenEvents == SelectSeq(trace, IsOpenEvent)

EveryCellMissing(r) == \A i \in DOMAIN r.cells : r.cells[i] = "NaN"

Before(a, b) == \A i, j \in DOMAIN trace : trace[i] = a /\ trace[j] = b => i < j

\* C1: for every date the dataset is opened by at most one load; a later
\* load of the same date is answered from the cache with no open attempt
\* and its result equals the result of the first load of that date.
C1_FetchAtMostOnce ==
    /\ \A d \in Dates : opens[d] <= 1
    /\ Has("cache_hit") => OpenEvents = <<>>
    /\ pc \in PostLoad =>
          /\ selected_date \in DOMAIN firstResult
          /\ sst_data = firstResult[selected_date]

C1_Witness ==
    /\ pc = "done"
    /\ Has("cache_hit")
    /\ opens[selected_date] = 1
    /\ ~sst_data.absent

\* C2: when the materialized slice has only NaN cells the load returns
\* None, and when some cell is not NaN it returns the slice unchanged.
C2_AllNaNIsAbsent ==
    (pc \in PostLoad /\ ~da.absent) =>
        IF EveryCellMissing(da) THEN sst_data = None ELSE sst_data = da

C2_Witness ==
    /\ pc = "done"
    /\ ~da.absent
    /\ Len(da.cells) > 0
    /\ EveryCellMissing(da)
    /\ sst_data = None

\* C3: a run whose slice materializes with at least one cell and every
\* cell NaN ends with an absent result, no exception, no error banner, and
\* the "no data for this date" warning banner shown.
C3_AllNaNShowsWarning ==
    (pc = "done" /\ ~da.absent /\ Len(da.cells) > 0 /\ EveryCellMissing(da)) =>
        /\ sst_data = None
        /\ ~Has("raise")
        /\ ~Has("error")
        /\ Has("warning")

\* C4: in a run where both the primary and the pydap open fail, the load
\* returns None, exactly one error banner is shown and create_map_figure
\* is not invoked (no figure created or displayed).
C4_BothEnginesFail ==
    (Has("primary_fail") /\ Has("secondary_fail")) =>
        /\ pc \in PostLoad
        /\ sst_data = None
        /\ Count("error") = 1
        /\ ~Has("render")
        /\ ~Has("subplots")
        /\ ~Has("pyplot")

C4_Witness ==
    /\ pc = "done"
    /\ Has("primary_fail")
    /\ Has("secondary_fail")
    /\ Has("stop")

\* C5: within one load the opens are primary then secondary; the secondary
\* open happens iff the primary raised, at most once, and nothing is
\* opened after it: at most two attempts, stopping at the first success.
C5_EngineOrder ==
    /\ OpenEvents \in {<<>>, <<"primary_ok">>, <<"primary_fail">>,
                       <<"primary_fail", "secondary_ok">>,
                       <<"primary_fail", "secondary_fail">>}
    /\ (Has("secondary_ok") \/ Has("secondary_fail")) => Has("primary_fail")
    /\ (Has("primary_fail") /\ pc # "open2") =>
           (Has("secondary_ok") \/ Has("secondary_fail"))
    /\ OpenEvents = <<"primary_fail">> <=> pc = "open2"

C5_Witness ==
    /\ pc = "done"
    /\ OpenEvents = <<"primary_fail", "secondary_ok">>
    /\ ~sst_data.absent

\* C6: create_map_figure called with None or with a slice of zero elements
\* returns no figure, raises nothing and creates no figure, for every date.
C6_RenderAbsentOrEmpty ==
    (Has("render") /\ (sst_data.absent \/ Len(sst_data.cells) = 0)) =>
        /\ ~fig.exists
        /\ ~Has("subplots")
        /\ ~Has("render_raised")
        /\ pc = "display"

C6_Witness ==
    /\ Has("render")
    /\ ~sst_data.absent
    /\ Len(sst_data.cells) = 0
    /\ ~fig.exists
    /\ figures > 0

\* C7: every run that ends with an absent load result and no figure shows
\* at least one banner (error, info or warning); a slice materialized in
\* the run is taken to have at least one cell.
C7_NoSilentHalt ==
    (pc = "done" /\ sst_data.absent /\ ~Has("pyplot")
                /\ (~da.absent => Len(da.cells) > 0)) =>
        (Has("error") \/ Has("info") \/ Has("warning"))

\* C8: in every run load, render and display happen in this order, each at
\* most once; create_map_figure is invoked only for a non-absent slice
\* with at least one element, st.pyplot only for a returned figure, and
\* the preview only when the slice is non-absent and non-empty.
C8_StageOrder ==
    /\ Count("load") <= 1
    /\ Count("render") <= 1
    /\ Count("pyplot") <= 1
    /\ Count("preview") <= 1
    /\ Before("load", "render")
    /\ Before("render", "pyplot")
    /\ Has("render") => Has("load") /\ ~sst_data.absent /\ Len(sst_data.cells) > 0
    /\ Has("pyplot") => Has("render") /\ fig.exists
    /\ Has("preview") => ~sst_data.absent /\ Len(sst_data.cells) > 0

C8_Witness ==
    /\ pc = "done"
    /\ Has("load")
    /\ Has("pyplot")
    /\ Has("preview")
    /\ fig.exists

\* C9: the load never returns (or caches) a non-absent slice of zero
\* elements, so the warning branch of the main logic is never taken.
C9_NoEmptySliceNoWarning ==
    /\ ~(~sst_data.absent /\ Len(sst_data.cells) = 0)
    /\ \A d \in DOMAIN cache :
          ~(~cache[d].value.absent /\ Len(cache[d].value.cells) = 0)
    /\ ~Has("warning")

C9_Witness ==
    /\ pc = "done"
    /\ ~da.absent
    /\ Len(da.cells) = 0
    /\ sst_data.absent
    /\ Has("stop")

\* C10: once a load of d has returned None, every later load of d returns
\* None with no open attempt whatever the service would now answer; a
\* cache entry never changes once written; a load of a date not loaded
\* before performs its own open.
C10_AbsentIsCached ==
    [][ /\ \A d \in DOMAIN cache : d \in DOMAIN cache' /\ cache'[d] = cache[d]
        /\ (pc = "load" /\ selected_date \in DOMAIN firstResult
                        /\ firstResult[selected_date].absent) =>
               /\ opens' = opens
               /\ sst_data'.absent
               /\ pc' = "main"
        /\ (pc = "load" /\ selected_date \notin DOMAIN firstResult) =>
               /\ opens'[selected_date] = opens[selected_date] + 1
               /\ pc' \in {"select", "open2"}
      ]_vars

C10_Witness ==
    /\ pc = "done"
    /\ Has("cache_hit")
    /\ Has("error")
    /\ sst_data.absent
    /\ opens[selected_date] = 1
    /\ \E d \in Dates : d # selected_date /\ opens[d] = 1

====
